---------------------------- MODULE Spec2Model ----------------------------
(* Storage backends of backilli: the remote (Yandex object storage) client  *)
(* of package yandex and the local client of package local.                 *)
(*                                                                          *)
(* File contents are sequences of runs [f, s, n]: n consecutive bytes of    *)
(* source file f starting at offset s (f = 0: zero bytes of a fresh        *)
(* make([]byte, ...)). Bytes of different origins or offsets are taken to   *)
(* differ, so two contents are equal exactly when their normal forms are.   *)
EXTENDS Integers, Sequences, FiniteSets, TLC

VARIABLES backend, root, bucket, tmp, lfiles, ldirs, pc, op, nops, norm, ctor

vars == <<backend, root, bucket, tmp, lfiles, ldirs, pc, op, nops, norm, ctor>>

--------------------------------------------------------------------------
(* Bounds of the model *)

\* operations one client is driven through
MaxOps == 2
\* a source file holds at most this many full split buffers (plus a rest)
MaxFull == 2
\* a local source file holds at most this many full copy blocks (plus a rest)
MaxBlocks == 2
\* length of the roots and destinations the key normaliser is applied to
MaxLen == 3
\* short (partial) reads of one response body
MaxShortReads == 1

--------------------------------------------------------------------------
(* Program constants *)

limit == 536870912
bufferOffset == 4096
readBuffer == 2048

--------------------------------------------------------------------------
(* Contents *)

Min(a, b) == IF a < b THEN a ELSE b

Run(f, s, n) == [f |-> f, s |-> s, n |-> n]

Zeros(n) == IF n = 0 THEN <<>> ELSE <<Run(0, 0, n)>>

\* the bytes [s, s+n) of source file f
Bytes(f, s, n) == IF n = 0 THEN <<>> ELSE <<Run(f, s, n)>>

RECURSIVE Size(_)
Size(c) == IF c = <<>> THEN 0 ELSE Head(c).n + Size(Tail(c))

Joins(a, b) == a.f = b.f /\ (a.f = 0 \/ a.s + a.n = b.s)

Cat(a, b) ==
    IF a = <<>> THEN b
    ELSE IF b = <<>> THEN a
    ELSE LET x == a[Len(a)]
             y == Head(b)
         IN  IF Joins(x, y)
             THEN SubSeq(a, 1, Len(a) - 1)
                    \o <<Run(x.f, x.s, x.n + y.n)>> \o Tail(b)
             ELSE a \o b

RECURSIVE Take(_, _)
Take(c, k) ==
    IF k <= 0 \/ c = <<>> THEN <<>>
    ELSE IF Head(c).n <= k THEN Cat(<<Head(c)>>, Take(Tail(c), k - Head(c).n))
    ELSE <<Run(Head(c).f, Head(c).s, k)>>

RECURSIVE Drop(_, _)
Drop(c, k) ==
    IF k <= 0 \/ c = <<>> THEN c
    ELSE IF Head(c).n <= k THEN Drop(Tail(c), k - Head(c).n)
    ELSE <<Run(Head(c).f, IF Head(c).f = 0 THEN 0 ELSE Head(c).s + k, Head(c).n - k)>>
           \o Tail(c)

\* d written into c at offset off (off + Size(d) may pass the end of c)
WriteAt(c, off, d) == Cat(Cat(Take(c, off), d), Drop(c, off + Size(d)))

--------------------------------------------------------------------------
(* Maps (object store, directories) *)

EmptyMap == [x \in {} |-> <<>>]

Has(m, k) == k \in DOMAIN m

MapPut(m, k, v) == [x \in DOMAIN m \cup {k} |-> IF x = k THEN v ELSE m[x]]

MapDel(m, k) == [x \in DOMAIN m \ {k} |-> m[x]]


--------------------------------------------------------------------------
(* Paths and keys *)

\* the operating system's path separator, which fs.GetFullPath joins with
\* when it is given the separator ""
PathSeparator == "/"

\* fs.GetFullPath("", a, b) on strings held as sequences of characters
GetFullPath(a, b) == a \o <<PathSeparator>> \o b

Digit(d) == <<"0", "1", "2", "3", "4", "5", "6", "7", "8", "9">>[d + 1]

RECURSIVE Digits(_)
Digits(i) == IF i < 10 THEN <<Digit(i)>> ELSE Digits(i \div 10) \o <<Digit(i % 10)>>

\* fmt.Sprintf("%03d", i): decimal, padded with zeros to three digits at least
Pad3(i) == LET d == Digits(i)
           IN  IF Len(d) >= 3 THEN d ELSE [j \in 1..(3 - Len(d)) |-> "0"] \o d

\* fmt.Sprintf("zip.%03d", part): the base name of a part's temporary file
ZipName(part) == <<"z", "i", "p", ".">> \o Pad3(part)

\* a trim that takes every trailing separator
RECURSIVE TrimRootAll(_)
TrimRootAll(cloudRoot) ==
    IF cloudRoot # <<>>
       /\ (cloudRoot[Len(cloudRoot)] = "\\" \/ cloudRoot[Len(cloudRoot)] = "/")
    THEN TrimRootAll(SubSeq(cloudRoot, 1, Len(cloudRoot) - 1))
    ELSE cloudRoot

\* the root without one trailing separator (0x5c or 0x2f)
TrimRoot(cloudRoot) ==
    IF cloudRoot[Len(cloudRoot)] = "\\" \/ cloudRoot[Len(cloudRoot)] = "/"
    THEN SubSeq(cloudRoot, 1, Len(cloudRoot) - 1)
    ELSE cloudRoot

\* bytes.ReplaceAll(dst, "\\", "/")
ReplaceAll(dst) == [i \in 1..Len(dst) |-> IF dst[i] = "\\" THEN "/" ELSE dst[i]]

cloudSep == <<"/">>

\* the object key put uploads under
yapath(cloudRoot, dst) == TrimRoot(cloudRoot) \o cloudSep \o ReplaceAll(dst)

--------------------------------------------------------------------------
(* Inputs *)

\* a source path that names no file
NoFile == -1

\* sizes of the source files: whole buffers, and one byte either side of one
RemoteSizes == {k * limit : k \in 0..MaxFull} \cup {limit - 1, limit + 1}

LocalSizes == {k * bufferOffset + r : k \in 0..MaxBlocks, r \in {0, 1}}

CloudRoots == {<<"r">>, <<"r", "/">>}

Dsts == {<<"k">>, <<"d", "\\", "k">>}

\* keys a caller passes to Read and Remove: as given to Write, or as stored
RemoteKeys == Dsts \cup {yapath(root, d) : d \in Dsts}

\* local paths, one segment per element
LocalRoot == <<"tmp", "store">>

LocalDsts == {<<"h">>, <<"sub", "h">>}

LocalPaths == LocalDsts \cup {LocalRoot \o d : d \in LocalDsts} \cup {LocalRoot}

NoPrev == [name |-> "none", src |-> NoFile, dst |-> <<>>, key |-> <<>>, mode |-> "",
           err |-> "nil"]

\* a call: its arguments, its locals, and what it returned (err, data); prev
\* is the call before it, clean whether it began with an empty temp directory
NoOp ==
    [name |-> "none", src |-> NoFile, dst |-> <<>>, key |-> <<>>, mode |-> "",
     part |-> 0, off |-> 0, buf |-> <<>>, puts |-> <<>>, body |-> <<>>,
     data |-> <<>>, reads |-> 0, rerr |-> "nil", existed |-> FALSE, err |-> "nil",
     prev |-> NoPrev, clean |-> TRUE]

\* the record of a call that begins now
Fresh ==
    [NoOp EXCEPT !.prev = [name |-> op.name, src |-> op.src, dst |-> op.dst,
                           key |-> op.key, mode |-> op.mode, err |-> op.err],
                 !.clean = (tmp = EmptyMap)]

NoNorm == [root |-> <<"r">>, dst |-> <<>>, key |-> <<>>, done |-> FALSE]

NoCtor == [conf |-> <<>>, env |-> <<>>, client |-> <<>>, err |-> "nil", step |-> "none",
           url |-> ""]

\* the client is between two calls
Callable(kind) == backend = kind /\ pc \in {"idle", "done"} /\ nops < MaxOps

RemoteFrame == UNCHANGED <<backend, root, lfiles, ldirs, norm, ctor>>

LocalFrame == UNCHANGED <<backend, root, bucket, tmp, norm, ctor>>

--------------------------------------------------------------------------
(* Remote backend: Write *)

\* a test that sends only the files over the threshold to the chunked path
SplitNeededStrict(size) == size > limit

\* YandexClient.Write's test for the chunked path
SplitNeeded(size) == size \div limit > 0

\* s3client.PutObject of the whole file under the normalised key
PutObject(b, cloudRoot, dst, body) == MapPut(b, yapath(cloudRoot, dst), body)

\* Write of a source path that names no file: os.Stat fails
WriteNoSource(dst) ==
    /\ Callable("remote")
    /\ op' = [Fresh EXCEPT !.name = "Write", !.dst = dst, !.err = "NotFound"]
    /\ pc' = "done"
    /\ nops' = nops + 1
    /\ UNCHANGED <<bucket, tmp>>
    /\ RemoteFrame

\* Write of a file under the threshold: putOnce, PutObject succeeds
WriteOnce(src, dst) ==
    /\ Callable("remote")
    /\ ~SplitNeeded(src)
    /\ bucket' = PutObject(bucket, root, dst, Bytes(src, 0, src))
    /\ op' = [Fresh EXCEPT !.name = "Write", !.src = src, !.dst = dst, !.mode = "once",
                          !.puts = <<[key |-> yapath(root, dst), body |-> Bytes(src, 0, src)]>>]
    /\ pc' = "done"
    /\ nops' = nops + 1
    /\ UNCHANGED tmp
    /\ RemoteFrame

\* the same, PutObject fails
WriteOnceFails(src, dst) ==
    /\ Callable("remote")
    /\ ~SplitNeeded(src)
    /\ op' = [Fresh EXCEPT !.name = "Write", !.src = src, !.dst = dst, !.mode = "once",
                          !.err = "IOError"]
    /\ pc' = "done"
    /\ nops' = nops + 1
    /\ UNCHANGED <<bucket, tmp>>
    /\ RemoteFrame

\* Write of a file at or over the threshold enters putSplitedFile: the buffer
\* is allocated, the source opened, the first part is next
putSplitedFile(src, dst) ==
    /\ Callable("remote")
    /\ SplitNeeded(src)
    /\ op' = [Fresh EXCEPT !.name = "Write", !.src = src, !.dst = dst, !.mode = "split",
                          !.part = 1, !.buf = Zeros(limit)]
    /\ pc' = "part_read"
    /\ nops' = nops + 1
    /\ UNCHANGED <<bucket, tmp>>
    /\ RemoteFrame

\* the step of a part fails: Write returns the error
PartFails(at) ==
    /\ backend = "remote"
    /\ pc = at
    /\ op' = [op EXCEPT !.err = "IOError"]
    /\ pc' = "done"
    /\ UNCHANGED <<bucket, tmp, nops>>
    /\ RemoteFrame

\* fd.Read(buf): a regular file gives min(len(buf), rest) bytes, or io.EOF
PartRead ==
    /\ backend = "remote"
    /\ pc = "part_read"
    /\ LET n == Min(limit, op.src - op.off)
       IN  IF n = 0
           THEN /\ pc' = "done"
                /\ op' = op
           ELSE /\ pc' = "part_create"
                /\ op' = [op EXCEPT !.buf = WriteAt(op.buf, 0, Bytes(op.src, op.off, n)),
                                    !.off = op.off + n]
    /\ UNCHANGED <<bucket, tmp, nops>>
    /\ RemoteFrame

\* os.Create(fp): the temporary file exists and is empty
PartCreate ==
    /\ backend = "remote"
    /\ pc = "part_create"
    /\ tmp' = MapPut(tmp, ZipName(op.part), <<>>)
    /\ pc' = "part_write"
    /\ UNCHANGED <<bucket, op, nops>>
    /\ RemoteFrame

\* what fd.Write(buf) leaves in the temporary file
TempContent(buf) == buf

\* fd.Write(buf), fd.Close()
PartWrite ==
    /\ backend = "remote"
    /\ pc = "part_write"
    /\ tmp' = MapPut(tmp, ZipName(op.part), TempContent(op.buf))
    /\ pc' = "part_put"
    /\ UNCHANGED <<bucket, op, nops>>
    /\ RemoteFrame

\* c.put(fp, GetFullPath("", dst, Base(fp)))
PartPut ==
    /\ backend = "remote"
    /\ pc = "part_put"
    /\ LET name == ZipName(op.part)
           to == GetFullPath(op.dst, name)
       IN  /\ bucket' = PutObject(bucket, root, to, tmp[name])
           /\ op' = [op EXCEPT !.puts = Append(op.puts,
                                    [key |-> yapath(root, to), body |-> tmp[name]])]
    /\ pc' = "part_remove"
    /\ UNCHANGED <<tmp, nops>>
    /\ RemoteFrame

\* a part whose temporary file is left behind
TmpKept(t, name) == t

\* the temporary directory after os.Remove(fp)
TmpAfterRemove(t, name) == MapDel(t, name)

\* os.Remove(fp), then the loop's i++
PartRemove ==
    /\ backend = "remote"
    /\ pc = "part_remove"
    /\ tmp' = TmpAfterRemove(tmp, ZipName(op.part))
    /\ op' = [op EXCEPT !.part = op.part + 1]
    /\ pc' = "part_read"
    /\ UNCHANGED <<bucket, nops>>
    /\ RemoteFrame


--------------------------------------------------------------------------
(* Remote backend: Read *)

\* s3client.GetObject fails: no object has the key
ReadNoObject(path) ==
    /\ Callable("remote")
    /\ ~Has(bucket, path)
    /\ op' = [Fresh EXCEPT !.name = "Read", !.key = path, !.err = "NotFound"]
    /\ pc' = "done"
    /\ nops' = nops + 1
    /\ UNCHANGED <<bucket, tmp>>
    /\ RemoteFrame

\* s3client.GetObject answers: the response carries the object's body
GetObject(path) ==
    /\ Callable("remote")
    /\ Has(bucket, path)
    /\ op' = [Fresh EXCEPT !.name = "Read", !.key = path, !.body = bucket[path]]
    /\ pc' = "body"
    /\ nops' = nops + 1
    /\ UNCHANGED <<bucket, tmp>>
    /\ RemoteFrame

\* sizes of the chunk one resp.Body.Read may deliver
Chunks(rest, reads) ==
    IF rest = 0 THEN {}
    ELSE {rest} \cup (IF rest > 1 /\ reads < MaxShortReads THEN {(rest + 1) \div 2} ELSE {})

\* resp.Body.Read gives num > 0 bytes: they are appended and the loop goes on
BodyData ==
    /\ backend = "remote"
    /\ pc = "body"
    /\ \E num \in Chunks(Size(op.body), op.reads) :
          op' = [op EXCEPT !.data = Cat(op.data, Take(op.body, num)),
                           !.body = Drop(op.body, num),
                           !.reads = IF num < Size(op.body) THEN op.reads + 1 ELSE op.reads]
    /\ UNCHANGED <<pc, bucket, tmp, nops>>
    /\ RemoteFrame

\* the error Read returns once resp.Body.Read gave (0, rerr) and the loop broke
ReadError(rerr) == "nil"

\* resp.Body.Read gives (0, io.EOF) at the end of the body
BodyEOF ==
    /\ backend = "remote"
    /\ pc = "body"
    /\ Size(op.body) = 0
    /\ op' = [op EXCEPT !.rerr = "EOF", !.err = ReadError("EOF")]
    /\ pc' = "done"
    /\ UNCHANGED <<bucket, tmp, nops>>
    /\ RemoteFrame

\* resp.Body.Read gives (0, err) for a transport error, anywhere in the body
BodyError ==
    /\ backend = "remote"
    /\ pc = "body"
    /\ op' = [op EXCEPT !.rerr = "IOError", !.err = ReadError("IOError")]
    /\ pc' = "done"
    /\ UNCHANGED <<bucket, tmp, nops>>
    /\ RemoteFrame

--------------------------------------------------------------------------
(* Remote backend: Remove *)

\* s3client.DeleteObject: the service answers success for a key with no object
DeleteObject(b, path) == [store |-> MapDel(b, path), err |-> "nil"]

YandexRemove(path) ==
    /\ Callable("remote")
    /\ bucket' = DeleteObject(bucket, path).store
    /\ op' = [Fresh EXCEPT !.name = "Remove", !.key = path, !.existed = Has(bucket, path),
                          !.err = DeleteObject(bucket, path).err]
    /\ pc' = "done"
    /\ nops' = nops + 1
    /\ UNCHANGED tmp
    /\ RemoteFrame

--------------------------------------------------------------------------
(* Local backend *)

\* fs.Dir: the path without its last segment
Dir(path) == SubSeq(path, 1, Len(path) - 1)

\* os.MkdirAll: the directory and every missing parent
MkdirAll(dirs, path) == dirs \cup {SubSeq(path, 1, i) : i \in 1..Len(path)}

\* os.Stat's error
Stat(dirs, files, path) == IF path \in dirs \/ Has(files, path) THEN "nil" ELSE "ENOENT"

\* os.IsExist(err): true of the errors that say a file already exists
IsExist(err) == err = "EEXIST"

\* is path at or below dir
Under(dir, path) == Len(path) >= Len(dir) /\ SubSeq(path, 1, Len(dir)) = dir

\* os.Remove in its place: a missing path is an error
RemoveOne(dirs, files, path) ==
    [dirs |-> {d \in dirs : ~Under(path, d)},
     files |-> [f \in {g \in DOMAIN files : ~Under(path, g)} |-> files[f]],
     err |-> IF path \in dirs \/ Has(files, path) THEN "nil" ELSE "ENOENT"]

\* os.RemoveAll: the path and all below it; a missing path is no error
RemoveAll(dirs, files, path) ==
    [dirs |-> {d \in dirs : ~Under(path, d)},
     files |-> [f \in {g \in DOMAIN files : ~Under(path, g)} |-> files[f]],
     err |-> "nil"]

\* what fd.Write(buf) puts into the destination after rd.Read gave n bytes
Written(buf, n) == buf

\* the copy loop of LocalClient.Write: the destination's content once the
\* source (size bytes, read from off) is at io.EOF
RECURSIVE CopyLoop(_, _, _, _, _)
CopyLoop(size, off, buf, dest, woff) ==
    LET n == Min(bufferOffset, size - off)
    IN  IF n = 0 THEN dest
        ELSE LET b == WriteAt(buf, 0, Bytes(size, off, n))
                 w == Written(b, n)
             IN  CopyLoop(size, off + n, b, WriteAt(dest, woff, w), woff + Size(w))

\* LocalClient.Write
LocalWrite(src, dst) ==
    /\ Callable("local")
    /\ LET dirs1 == IF Stat(ldirs, lfiles, root) = "nil" THEN ldirs ELSE MkdirAll(ldirs, root)
           fpf == root \o dst
           fpd == Dir(fpf)
           dirs2 == IF Stat(dirs1, lfiles, fpd) = "nil" THEN dirs1 ELSE MkdirAll(dirs1, fpd)
           rm == IF IsExist(Stat(dirs2, lfiles, fpf))
                 THEN RemoveAll(dirs2, lfiles, fpf)
                 ELSE [dirs |-> dirs2, files |-> lfiles, err |-> "nil"]
           \* os.OpenFile(fpf, O_CREATE|O_WRONLY): created when missing, never truncated
           old == IF Has(rm.files, fpf) THEN rm.files[fpf] ELSE <<>>
       IN  /\ ldirs' = rm.dirs
           /\ IF src = NoFile
              THEN /\ lfiles' = MapPut(rm.files, fpf, old)
                   /\ op' = [Fresh EXCEPT !.name = "Write", !.dst = dst, !.key = fpf,
                                         !.existed = Has(lfiles, fpf), !.body = old,
                                         !.err = "NotFound"]
              ELSE /\ lfiles' = MapPut(rm.files, fpf,
                                       CopyLoop(src, 0, Zeros(bufferOffset), old, 0))
                   /\ op' = [Fresh EXCEPT !.name = "Write", !.src = src, !.dst = dst,
                                         !.key = fpf, !.existed = Has(lfiles, fpf),
                                         !.body = old]
    /\ pc' = "done"
    /\ nops' = nops + 1
    /\ LocalFrame

\* the read loop of LocalClient.Read over a file of content c
RECURSIVE ReadLoop(_, _, _, _, _)
ReadLoop(c, pos, buffer, res, offs) ==
    LET n == Min(readBuffer, Size(c) - pos)
    IN  IF n = 0 THEN res
        ELSE LET b == WriteAt(buffer, 0, Take(Drop(c, pos), n))
             IN  ReadLoop(c, pos + n, b, WriteAt(res, offs, Take(b, n)), offs + readBuffer)

\* LocalClient.Read
LocalRead(path) ==
    /\ Callable("local")
    /\ IF Has(lfiles, path)
       THEN op' = [Fresh EXCEPT !.name = "Read", !.key = path,
                      !.data = ReadLoop(lfiles[path], 0, Zeros(readBuffer),
                                        Zeros(Size(lfiles[path])), 0)]
       ELSE op' = [Fresh EXCEPT !.name = "Read", !.key = path,
                      !.err = IF path \in ldirs THEN "IOError" ELSE "NotFound"]
    /\ pc' = "done"
    /\ nops' = nops + 1
    /\ UNCHANGED <<lfiles, ldirs>>
    /\ LocalFrame

\* LocalClient.Remove
LocalRemove(path) ==
    /\ Callable("local")
    /\ LET rm == RemoveAll(ldirs, lfiles, path)
       IN  /\ ldirs' = rm.dirs
           /\ lfiles' = rm.files
           /\ op' = [Fresh EXCEPT !.name = "Remove", !.key = path,
                        !.existed = (Stat(ldirs, lfiles, path) = "nil"), !.err = rm.err]
    /\ pc' = "done"
    /\ nops' = nops + 1
    /\ LocalFrame


--------------------------------------------------------------------------
(* Construction of the remote backend *)

Regions == {"ru-central1", "ru-central2", "us-east-1"}

Confs ==
    [Region : Regions, KeyId : {"id1", "id2"}, KeySecret : {"s1", "s2"},
     BucketName : {"b1", "b2"}, Root : CloudRoots]

NoClient == <<>>

\* s3.ServiceID
ServiceID == "S3"

\* a resolver that answers for every region
yandexResolverAny(service, region) ==
    [PartitionID |-> "yc", URL |-> "https://storage.yandexcloud.net",
     SigningRegion |-> "ru-central1", err |-> "nil"]

yandexResolver(service, region) ==
    IF service = ServiceID /\ region = "ru-central1"
    THEN [PartitionID |-> "yc", URL |-> "https://storage.yandexcloud.net",
          SigningRegion |-> "ru-central1", err |-> "nil"]
    ELSE [PartitionID |-> "", URL |-> "", SigningRegion |-> "",
          err |-> "unknown endpoint requested"]

\* the three env.Set calls
SetEnv(conf) ==
    [AWS_REGION |-> conf.Region, AWS_ACCESS_KEY_ID |-> conf.KeyId,
     AWS_SECRET_ACCESS_KEY |-> conf.KeySecret]

\* NewClient when config.LoadDefaultConfig succeeds: the resolver is handed to
\* the configuration, not called
NewClient ==
    /\ ctor.step = "conf"
    /\ ctor' = [ctor EXCEPT !.env = SetEnv(ctor.conf),
                            !.client = [cloudRoot |-> ctor.conf.Root, cloudSep |-> cloudSep,
                                        bucketName |-> ctor.conf.BucketName],
                            !.err = "nil", !.step = "constructed"]
    /\ UNCHANGED <<backend, root, bucket, tmp, lfiles, ldirs, pc, op, nops, norm>>

\* NewClient when config.LoadDefaultConfig fails
NewClientLoadFails ==
    /\ ctor.step = "conf"
    /\ ctor' = [ctor EXCEPT !.env = SetEnv(ctor.conf), !.client = NoClient,
                            !.err = "ErrLoadingConfiguration", !.step = "failed"]
    /\ UNCHANGED <<backend, root, bucket, tmp, lfiles, ldirs, pc, op, nops, norm>>

\* the first call of the client (GetObject, PutObject, ListObjectsV2 or
\* DeleteObject): the session resolves its endpoint through the resolver
FirstRequest ==
    /\ ctor.step = "constructed"
    /\ LET e == yandexResolver(ServiceID, ctor.env.AWS_REGION)
       IN  ctor' = [ctor EXCEPT !.url = e.URL, !.err = e.err, !.step = "requested"]
    /\ UNCHANGED <<backend, root, bucket, tmp, lfiles, ldirs, pc, op, nops, norm>>

--------------------------------------------------------------------------
(* The key normaliser on its own *)

Alphabet == {"a", "/", "\\"}

Strings(n) == UNION {[1..k -> Alphabet] : k \in 0..n}

ExampleRoot == <<"a", "/", "b", "/">>

ExampleDst == <<"c", "\\", "d", ".", "t", "x", "t">>

\* put's derivation of the key from the client's root and the destination
Normalise ==
    /\ ~norm.done
    /\ norm' = [norm EXCEPT !.key = yapath(norm.root, norm.dst), !.done = TRUE]
    /\ UNCHANGED <<backend, root, bucket, tmp, lfiles, ldirs, pc, op, nops, ctor>>

--------------------------------------------------------------------------
(* Specifications *)

\* one backend, constructed, driven through the StorageClient contract
Init ==
    /\ backend \in {"remote", "local"}
    /\ root \in (IF backend = "remote" THEN CloudRoots ELSE {LocalRoot})
    /\ bucket = EmptyMap
    /\ tmp = EmptyMap
    /\ lfiles = EmptyMap
    /\ ldirs \in (IF backend = "remote" THEN {{}} ELSE {{}, MkdirAll({}, LocalRoot)})
    /\ pc = "idle"
    /\ op = NoOp
    /\ nops = 0
    /\ norm = NoNorm
    /\ ctor = NoCtor

Next ==
    \/ \E dst \in Dsts : WriteNoSource(dst)
    \/ \E src \in RemoteSizes, dst \in Dsts : WriteOnce(src, dst)
    \/ \E src \in RemoteSizes, dst \in Dsts : WriteOnceFails(src, dst)
    \/ \E src \in RemoteSizes, dst \in Dsts : putSplitedFile(src, dst)
    \/ PartRead
    \/ PartCreate
    \/ PartWrite
    \/ PartPut
    \/ PartRemove
    \/ \E at \in {"part_read", "part_create", "part_write", "part_put", "part_remove"} :
          PartFails(at)
    \/ \E path \in RemoteKeys : ReadNoObject(path)
    \/ \E path \in RemoteKeys : GetObject(path)
    \/ BodyData
    \/ BodyEOF
    \/ BodyError
    \/ \E path \in RemoteKeys : YandexRemove(path)
    \/ \E src \in LocalSizes \cup {NoFile}, dst \in LocalDsts : LocalWrite(src, dst)
    \/ \E path \in LocalPaths : LocalRead(path)
    \/ \E path \in LocalPaths : LocalRemove(path)

Spec == Init /\ [][Next]_vars

\* construction of the remote backend from a configuration
InitNew ==
    /\ backend = "remote"
    /\ root = <<"r">>
    /\ bucket = EmptyMap
    /\ tmp = EmptyMap
    /\ lfiles = EmptyMap
    /\ ldirs = {}
    /\ pc = "idle"
    /\ op = NoOp
    /\ nops = 0
    /\ norm = NoNorm
    /\ ctor \in {[NoCtor EXCEPT !.conf = c, !.step = "conf"] : c \in Confs}

NextNew == NewClient \/ NewClientLoadFails \/ FirstRequest

SpecNew == InitNew /\ [][NextNew]_vars

\* the key normaliser over all short roots and destinations
InitKey ==
    /\ backend = "remote"
    /\ root = <<"r">>
    /\ bucket = EmptyMap
    /\ tmp = EmptyMap
    /\ lfiles = EmptyMap
    /\ ldirs = {}
    /\ pc = "idle"
    /\ op = NoOp
    /\ nops = 0
    /\ ctor = NoCtor
    /\ \E r \in (Strings(MaxLen) \ {<<>>}) \cup {ExampleRoot},
          d \in Strings(MaxLen) \cup {ExampleDst} :
          norm = [root |-> r, dst |-> d, key |-> <<>>, done |-> FALSE]

NextKey == Normalise

SpecKey == InitKey /\ [][NextKey]_vars


--------------------------------------------------------------------------
(* Claims *)

RemoteWriteDone == backend = "remote" /\ pc = "done" /\ op.name = "Write"

\* the number of parts of a file of that size
Parts(size) == size \div limit + (IF size % limit = 0 THEN 0 ELSE 1)

\* the key of part i of a chunked Write to dst
PartKey(dst, i) == yapath(root, GetFullPath(dst, ZipName(i)))

RECURSIVE CatAll(_)
CatAll(puts) == IF puts = <<>> THEN <<>> ELSE Cat(Head(puts).body, CatAll(Tail(puts)))

\* C1 as stated: a remote Write takes the putOnce path for every size up to
\* and including the threshold, the chunked path only above it.
C1_AtOrBelowThresholdOnce ==
    (backend = "remote" /\ op.name = "Write" /\ op.src # NoFile)
        => (op.mode = "once" <=> op.src <= limit)

\* C1 amended: a remote Write takes the putOnce path exactly for the sizes
\* strictly below the threshold (one PutObject of the whole file under the
\* normalised key), and the chunked path for every size at or above it.
C1_BelowThresholdOnce ==
    (backend = "remote" /\ op.name = "Write" /\ op.src # NoFile)
        => /\ op.mode = "once" <=> op.src < limit
           /\ op.mode = "split" <=> op.src >= limit
           /\ (op.mode = "once" /\ op.err = "nil")
                 => op.puts = <<[key |-> yapath(root, op.dst),
                                 body |-> Bytes(op.src, 0, op.src)]>>

\* a file of exactly the threshold's size went the chunked way
C1_Witness ==
    backend = "remote" /\ op.name = "Write" /\ op.src = limit /\ op.mode = "split"
        /\ pc = "done" /\ op.err = "nil"

\* C2: a successful remote Write of a file over the threshold uploads
\* ceil(size / threshold) parts, keyed zip.001, zip.002, ... in order, whose
\* bodies put together are the source, byte for byte.
C2_PartsAreTheSource ==
    (RemoteWriteDone /\ op.err = "nil" /\ op.src > limit)
        => /\ Len(op.puts) = Parts(op.src)
           /\ \A i \in 1..Len(op.puts) : op.puts[i].key = PartKey(op.dst, i)
           /\ CatAll(op.puts) = Bytes(op.src, 0, op.src)

\* the same claim without its last clause holds: count and names of the parts
C2_PartCountAndNames ==
    (RemoteWriteDone /\ op.err = "nil" /\ op.src > limit)
        => /\ Len(op.puts) = Parts(op.src)
           /\ \A i \in 1..Len(op.puts) : op.puts[i].key = PartKey(op.dst, i)

LocalWriteDone == backend = "local" /\ pc = "done" /\ op.name = "Write" /\ op.err = "nil"

\* C3: a successful local Write to a destination that did not exist creates
\* the root and the parent directory and leaves at root/destination a file
\* whose content is the source's, byte for byte, with the same length.
C3_LocalWriteCopiesSource ==
    (LocalWriteDone /\ ~op.existed)
        => /\ root \in ldirs
           /\ Dir(op.key) \in ldirs
           /\ op.key = root \o op.dst
           /\ Has(lfiles, op.key)
           /\ Size(lfiles[op.key]) = op.src
           /\ lfiles[op.key] = Bytes(op.src, 0, op.src)

\* the same claim for the sources that are whole copy blocks: this holds
C3_WholeBlocks ==
    (LocalWriteDone /\ ~op.existed /\ op.src % bufferOffset = 0)
        => lfiles[op.key] = Bytes(op.src, 0, op.src)

\* C4: where Write did not take the chunked path, a Read of the key just
\* written succeeds and returns the source's content.
C4_ReadAfterWrite ==
    (pc = "done" /\ op.name = "Read" /\ op.prev.name = "Write" /\ op.prev.err = "nil"
       /\ op.prev.mode # "split" /\ op.key = op.prev.dst)
        => /\ op.err = "nil"
           /\ op.data = Bytes(op.prev.src, 0, op.prev.src)

\* C5: a remote Read that returns no error returns the whole object body, and
\* one whose body read failed with an error other than io.EOF returns an error.
C5_NoPartialRead ==
    (backend = "remote" /\ pc = "done" /\ op.name = "Read" /\ Has(bucket, op.key))
        => /\ op.err = "nil" => op.data = bucket[op.key]
           /\ op.rerr = "IOError" => op.err # "nil"

RemoveDone == pc = "done" /\ op.name = "Remove"

C7_OtherRegionFailsConstruction ==
    /\ (ctor.step = "requested" /\ ctor.conf.Region = "ru-central1")
          => ctor.url = "https://storage.yandexcloud.net"
    /\ (ctor.step \in {"constructed", "failed"} /\ ctor.conf.Region # "ru-central1")
          => (ctor.client = NoClient /\ ctor.err = "unknown endpoint requested")

\* C7 amended: with region ru-central1 the endpoint is
\* https://storage.yandexcloud.net; NewClient never returns an
\* endpoint-resolution error: it returns a client for every region unless the
\* configuration fails to load (ErrLoadingConfiguration, no client), and with
\* any other region it is the client's first request that fails with the
\* resolver's error.
C7_OtherRegionFailsFirstRequest ==
    /\ ctor.step \in {"constructed", "failed"}
          => /\ ctor.err \in {"nil", "ErrLoadingConfiguration"}
             /\ ctor.err = "nil" <=> ctor.client # NoClient
             /\ ctor.env.AWS_REGION = ctor.conf.Region
    /\ ctor.step = "requested"
          => /\ ctor.client # NoClient
             /\ IF ctor.conf.Region = "ru-central1"
                THEN ctor.url = "https://storage.yandexcloud.net" /\ ctor.err = "nil"
                ELSE ctor.url = "" /\ ctor.err = "unknown endpoint requested"

\* a client of another region was constructed and its first request failed
C7_Witness ==
    ctor.step = "requested" /\ ctor.conf.Region # "ru-central1"
        /\ ctor.client # NoClient /\ ctor.err = "unknown endpoint requested"

\* C8: for a non-empty root the key is the root without one trailing '/' or
\* '\', then one '/', then the destination with each '\' turned into '/'.
C8_KeyNormalised ==
    norm.done
        => LET r == norm.root
               d == norm.dst
               k == norm.key
               m == IF r[Len(r)] \in {"/", "\\"} THEN Len(r) - 1 ELSE Len(r)
           IN  /\ Len(k) = m + 1 + Len(d)
               /\ \A i \in 1..m : k[i] = r[i]
               /\ k[m + 1] = "/"
               /\ \A j \in 1..Len(d) : k[m + 1 + j] = (IF d[j] = "\\" THEN "/" ELSE d[j])
               /\ (r = ExampleRoot /\ d = ExampleDst)
                     => k = <<"a", "/", "b", "/", "c", "/", "d", ".", "t", "x", "t">>

\* root "a/b/" and destination "c\d.txt" were normalised
C8_Witness ==
    norm.done /\ norm.root = ExampleRoot /\ norm.dst = ExampleDst
        /\ norm.key = <<"a", "/", "b", "/", "c", "/", "d", ".", "t", "x", "t">>

\* C9: a successful local Write over an existing destination leaves exactly
\* the source's bytes there, whatever the file held before (also when it was
\* longer): no byte of the previous file remains.
C9_OverwriteLeavesOnlySource ==
    (LocalWriteDone /\ op.existed)
        => /\ Size(lfiles[op.key]) = op.src
           /\ lfiles[op.key] = Bytes(op.src, 0, op.src)

\* the same claim for sources of whole copy blocks fails as well: the old
\* file's tail stays
C9_WholeBlocks ==
    (LocalWriteDone /\ op.existed /\ op.src % bufferOffset = 0)
        => lfiles[op.key] = Bytes(op.src, 0, op.src)

InSplit == backend = "remote" /\ op.name = "Write" /\ op.mode = "split"

\* C10: a chunked upload handles its parts one by one in the order 1, 2, ...;
\* the temporary file of every part before the current one is deleted already,
\* so of the execution's temporary files only the current part's can exist,
\* and none of them is left when the Write returns success. An execution that
\* began with an empty temp directory never sees two files in it, and leaves
\* it empty on success.
C10_OnePartAtATime ==
    InSplit
        => /\ op.part >= 1
           /\ Len(op.puts) \in {op.part - 1, op.part}
           /\ Len(op.puts) = op.part => pc \in {"part_remove", "done"}
           /\ \A i \in 1..Len(op.puts) : op.puts[i].key = PartKey(op.dst, i)
           /\ \A j \in 1..(op.part - 1) : ~Has(tmp, ZipName(j))
           /\ (pc = "done" /\ op.err = "nil")
                 => \A j \in 1..op.part : j <= Len(op.puts) => ~Has(tmp, ZipName(j))
           /\ op.clean
                 => /\ Cardinality(DOMAIN tmp) <= 1
                    /\ (pc = "done" /\ op.err = "nil") => tmp = EmptyMap

\* a chunked Write of two parts at least returned success, after an earlier
\* Write had left a temporary file behind
C10_Witness ==
    InSplit /\ pc = "done" /\ op.err = "nil" /\ Len(op.puts) >= 2 /\ ~op.clean

============================================================================
